---- MODULE Spec2Model ----
(***************************************************************************)
(* Governance & Learning Core (Tool6): the hash-chained trust ledger, the  *)
(* adaptive trust model and the drift samples, as the CLI processes of     *)
(* Tool6/src/main.py drive them against the shared governance store.       *)
(*                                                                         *)
(* Analytical stages (Tool2 session builder, Tool3 trajectory forecaster,  *)
(* Tool4 decision engine): batch transformations, one call at a time, of   *)
(* an argument into a result.                                              *)
(*                                                                         *)
(* Reals are fixed-point integers in units of 1/10000 (the precision the   *)
(* code rounds the thresholds to): 0.6 is 6000, 0.35 is 3500.              *)
(***************************************************************************)
EXTENDS Integers, Sequences, FiniteSets, TLC

VARIABLES
    configs,    \* model_configuration rows, in rowid order (committed)
    ledger,     \* trust_ledger rows, in rowid order (committed)
    samples,    \* drift_samples rows, in rowid order (committed)
    pc,         \* pc[p]: where CLI process p stands
    loc,        \* loc[p]: the locals of process p (and its session's pending rows)
    clock,      \* the wall clock read by datetime.now
    writer,     \* the process holding the store's write lock, 0 when free
    autoflush,  \* the session's autoflush setting
    nextVer,    \* source of fresh uuid4 version suffixes
    budget,     \* commands started so far
    integrity,  \* ledger_integrity of the last status display
    call,       \* the analytical stage called last, "none" before any call
    arg,        \* the argument of that call
    result,     \* what the calls made on arg so far returned, in call order
    build,      \* what the build leaves unspecified: the order an unstable
                \* sort gives to rows of equal key
    cache,      \* the _cache of the VulnManager instance
    fetched     \* the queries sent to the catalog so far, in order

gvars == <<configs, ledger, samples, pc, loc, clock, writer, autoflush, nextVer,
           budget, integrity>>
pvars == <<call, arg, result, build, cache, fetched>>
vars == <<gvars, pvars>>

(***************************************************************************)
(* Bounds of the model.                                                    *)
(***************************************************************************)
NumProcs == 2
MaxCommands == 3
MaxCalls == 2
MaxEvents == 3
MaxActions == 1
MaxTs == 3
MaxBatch == 2
MaxScenarios == 1
MaxObserved == 2
MaxReconEvents == 10
MaxTechniques == 8
MaxKev == 2
MaxLookups == 2

Procs == 1..NumProcs

(***************************************************************************)
(* Program constants.                                                      *)
(***************************************************************************)
ALPHA == 1000
BETA == 100
DecayPct == 85
MomentumMax == 3500
ContainMin == 4000
ContainMax == 9500
DisruptMin == 6000
DisruptMax == 10000
MomentumAlertAt == 2500
ContainAlertHigh == 9000
ContainAlertLow == 4500
GenesisContain == 6000
GenesisDisrupt == 8500

ZeroHash == "0000000000000000000000000000000000000000000000000000000000000000"

Max2(a, b) == IF a >= b THEN a ELSE b
Min2(a, b) == IF a <= b THEN a ELSE b
Abs(a) == IF a >= 0 THEN a ELSE -a

(***************************************************************************)
(* ModelConfiguration rows.                                                *)
(***************************************************************************)
GenesisConfig ==
    [version_id |-> "v1.0-genesis", is_active |-> 1,
     containment_threshold |-> GenesisContain,
     disruptive_threshold |-> GenesisDisrupt,
     trust_momentum |-> 0, success_streak |-> 0, failure_streak |-> 0]

\* query(ModelConfiguration).filter_by(is_active=1): the matching row numbers
ActiveRows(cfgs) == {i \in 1..Len(cfgs) : cfgs[i].is_active = 1}

(***************************************************************************)
(* Execution reports.  An action carries final_status, the is_kev flag of  *)
(* its vulnerability_details and its urgency; a report carries its actions *)
(* under "actions_included" (script-gen format) or under "executions", and *)
(* may bear a script_filename.                                             *)
(***************************************************************************)
SeqsUpTo(S, n) == UNION {[1..k -> S] : k \in 0..n}

\* _parse_actions
ParseActions(report) ==
    IF report.actions_included
    THEN [i \in 1..Len(report.acts) |->
             [final_status |-> "success",
              is_kev |-> report.acts[i].is_kev,
              urgency |-> report.acts[i].urgency]]
    ELSE report.acts

IsRollback(ex) == ex.final_status \in {"rolled_back", "failed"}
IsSuccess(ex) == ex.final_status = "success"
IsKevRollback(ex) == IsRollback(ex) /\ ex.is_kev
IsKevSuccess(ex) == IsSuccess(ex) /\ ex.is_kev
IsHighUrgency(ex) == ex.urgency \in {"Critical", "High"}

\* the counting loop of process_execution_feedback
Tally(report) ==
    LET actions == ParseActions(report)
        idx == 1..Len(actions)
        succ0 == Cardinality({i \in idx : IsSuccess(actions[i])})
    IN [n |-> Len(actions),
        is_script_gen |-> report.script_filename,
        rollbacks |-> Cardinality({i \in idx : IsRollback(actions[i])}),
        successes |-> IF report.script_filename /\ succ0 = 0
                      THEN Len(actions) ELSE succ0,
        kev_successes |-> Cardinality({i \in idx : IsKevSuccess(actions[i])}),
        kev_failures |-> Cardinality({i \in idx : IsKevRollback(actions[i])}),
        high_urgency_count |->
            Cardinality({i \in idx : IsHighUrgency(actions[i])})]

\* faulty variant of RawDelta: the KEV penalty multiplier is dropped
RawDeltaNoKev(t) ==
    IF t.rollbacks > 0
    THEN -(t.rollbacks * ALPHA)
    ELSE IF t.successes > 0
    THEN (t.successes * BETA * (10 + 5 * t.kev_successes + t.high_urgency_count)) \div 10
    ELSE 0
\* raw_delta: ALPHA, BETA and the bonus factors, exact in 1/10000 units
RawDelta(t) ==
    IF t.rollbacks > 0
    THEN -(t.rollbacks * ALPHA * (1 + t.kev_failures))
    ELSE IF t.successes > 0
    THEN (t.successes * BETA * (10 + 5 * t.kev_successes + t.high_urgency_count)) \div 10
    ELSE 0

\* trust_momentum * 0.85, truncated toward zero
Decay(m) == IF m >= 0 THEN (m * DecayPct) \div 100 ELSE -(((-m) * DecayPct) \div 100)

\* faulty variant of Clamp: no clamping
ClampNoop(lo, hi, x) == x
Clamp(lo, hi, x) == Max2(lo, Min2(hi, x))

NewMomentum(cur, t) == Clamp(-MomentumMax, MomentumMax, Decay(cur.trust_momentum) + RawDelta(t))
NewContain(cur, m) == Clamp(ContainMin, ContainMax, cur.containment_threshold - m)
\* new_momentum * 0.5, truncated toward zero
Half(m) == IF m >= 0 THEN m \div 2 ELSE -((-m) \div 2)
NewDisrupt(cur, m) == Clamp(DisruptMin, DisruptMax, cur.disruptive_threshold - Half(m))

\* faulty variant of NewSuccessStreak: a failure leaves the success streak
NewSuccessStreakKept(cur, t) ==
    IF t.successes > 0 /\ t.rollbacks = 0 THEN cur.success_streak + 1
    ELSE cur.success_streak

NewSuccessStreak(cur, t) ==
    IF t.rollbacks > 0 THEN 0
    ELSE IF t.successes > 0 THEN cur.success_streak + 1
    ELSE cur.success_streak

\* faulty variant of NewFailureStreak: a success leaves the failure streak
NewFailureStreakKept(cur, t) ==
    IF t.rollbacks > 0 THEN cur.failure_streak + 1
    ELSE cur.failure_streak

NewFailureStreak(cur, t) ==
    IF t.rollbacks > 0 THEN cur.failure_streak + 1
    ELSE IF t.successes > 0 THEN 0
    ELSE cur.failure_streak

\* the ModelConfiguration built by process_execution_feedback (is_active = 0)
BuildConfig(cur, report, ver) ==
    LET t == Tally(report)
        m == NewMomentum(cur, t)
    IN [version_id |-> ver, is_active |-> 0,
        containment_threshold |-> NewContain(cur, m),
        disruptive_threshold |-> NewDisrupt(cur, m),
        trust_momentum |-> m,
        success_streak |-> NewSuccessStreak(cur, t),
        failure_streak |-> NewFailureStreak(cur, t)]

MomentumAlert(m) == Abs(m) >= MomentumAlertAt
ThresholdAlert(c) == c >= ContainAlertHigh \/ c <= ContainAlertLow

\* the three _record_drift_sample calls
DriftSamples(cfg) ==
    << [metric_name |-> "trust_momentum", metric_value |-> cfg.trust_momentum,
        alert_triggered |-> MomentumAlert(cfg.trust_momentum)],
       [metric_name |-> "containment_threshold", metric_value |-> cfg.containment_threshold,
        alert_triggered |-> ThresholdAlert(cfg.containment_threshold)],
       [metric_name |-> "disruptive_threshold", metric_value |-> cfg.disruptive_threshold,
        alert_triggered |-> FALSE] >>

(***************************************************************************)
(* The trust ledger.  SHA-256 is taken collision-free: the digest of a     *)
(* string is modelled by the string itself, so two digests are equal       *)
(* exactly when the hashed concatenations are.                             *)
(***************************************************************************)
\* datetime.isoformat()
IsoFormat(ts) == ToString(ts)

\* the DateTime column round trip of trust_ledger.timestamp
StoredTimestamp(ts) == ts

\* json.dumps(payload, sort_keys=True) of a dict payload
JsonDumps(payload) == payload.text

\* _compute_hash: the five fields concatenated with no separator, then hashed
ComputeHash(prev_hash, timestamp, event_type, payload, actor) ==
    prev_hash \o timestamp \o event_type \o JsonDumps(payload) \o actor

EmptyDict == [isdict |-> TRUE, text |-> "{}"]

MaxTimestamp(led) == CHOOSE t \in {led[i].timestamp : i \in 1..Len(led)} :
                        \A i \in 1..Len(led) : led[i].timestamp <= t

\* _get_last_hash: order_by(timestamp.desc()).first(); rows with equal
\* timestamps come in an order the store does not define
LastHashes(led) ==
    IF Len(led) = 0 THEN {ZeroHash}
    ELSE {led[i].hash_id : i \in {j \in 1..Len(led) : led[j].timestamp = MaxTimestamp(led)}}

\* the row built by log_event
NewEntry(prev_hash, ts, event_type, payload, actor) ==
    [hash_id |-> ComputeHash(prev_hash, IsoFormat(ts), event_type, payload, actor),
     previous_hash |-> prev_hash,
     timestamp |-> StoredTimestamp(ts),
     event_type |-> event_type,
     payload |-> payload,
     actor |-> actor]

\* order_by(timestamp.asc()).all(): the orders in which the query may return
\* the rows S (rows with equal timestamps come in any order)
RECURSIVE Orderings(_, _)
Orderings(led, S) ==
    IF S = {} THEN {<<>>}
    ELSE LET first == {i \in S : \A j \in S : led[i].timestamp <= led[j].timestamp}
         IN UNION {{<<led[i]>> \o rest : rest \in Orderings(led, S \ {i})} : i \in first}

\* "payload = entry.payload if isinstance(entry.payload, dict) else {}"
VerifyPayload(entry) == IF entry.payload.isdict THEN entry.payload ELSE EmptyDict

\* the loop of verify_ledger_integrity over the rows k..Len(entries)
RECURSIVE VerifyFrom(_, _, _)
VerifyFrom(entries, k, prev_hash) ==
    IF k > Len(entries) THEN TRUE
    ELSE LET entry == entries[k]
             expected_hash == ComputeHash(prev_hash, IsoFormat(entry.timestamp),
                                          entry.event_type, VerifyPayload(entry), entry.actor)
         IN IF entry.previous_hash # prev_hash THEN FALSE
            ELSE IF entry.hash_id # expected_hash THEN FALSE
            ELSE VerifyFrom(entries, k + 1, entry.hash_id)

\* verify_ledger_integrity: its possible results on the stored rows
VerifyOutcomes(led) ==
    {VerifyFrom(entries, 1, ZeroHash) : entries \in Orderings(led, 1..Len(led))}

(***************************************************************************)
(* Payloads written by the governance core.                                *)
(***************************************************************************)
\* report.get("report_id") or report.get("script_filename", "unknown")
ReportId(report) ==
    IF report.report_id # "" THEN report.report_id
    ELSE IF report.script_filename THEN "remediate.ps1" ELSE "unknown"

IngestPayload(report) == [isdict |-> TRUE, text |-> "{report_id: " \o ReportId(report) \o "}"]

LearningPayload(cur, new, report) ==
    LET t == Tally(report)
    IN [isdict |-> TRUE,
        text |-> ToString([old_ver |-> cur.version_id,
                           new_ver |-> new.version_id,
                           source |-> IF t.is_script_gen THEN "script_gen" ELSE "execution",
                           actions_processed |-> ToString(t.n),
                           high_urgency_count |-> ToString(t.high_urgency_count),
                           kev_context |-> ToString(<<t.kev_successes, t.kev_failures>>),
                           momentum |-> ToString(new.trust_momentum)])]

\* uuid.uuid4().hex[:8]: a fresh version id
NewVersion(n) == "v" \o ToString(n)

\* version ids are unique in model_configuration
VersionFree(cfgs, ver) == \A i \in 1..Len(cfgs) : cfgs[i].version_id # ver

(***************************************************************************)
(* The inputs the processes are run with.                                  *)
(***************************************************************************)
\* the kinds of action the counting loop tells apart
ActionRecords ==
    { [final_status |-> "success", is_kev |-> TRUE, urgency |-> "Critical"],
      [final_status |-> "success", is_kev |-> FALSE, urgency |-> "Low"],
      [final_status |-> "rolled_back", is_kev |-> TRUE, urgency |-> "Low"],
      [final_status |-> "failed", is_kev |-> FALSE, urgency |-> "High"],
      [final_status |-> "pending", is_kev |-> FALSE, urgency |-> "Low"] }

Rollback(kev) == [final_status |-> "rolled_back", is_kev |-> kev, urgency |-> "Low"]
Success(kev) == [final_status |-> "success", is_kev |-> kev, urgency |-> "Critical"]

ExecutionReport(acts) ==
    [actions_included |-> FALSE, script_filename |-> FALSE, report_id |-> "", acts |-> acts]

\* the report of the adaptive-tightening scenario: two rollbacks, one KEV-tagged
TighteningReport == ExecutionReport(<<Rollback(TRUE), Rollback(FALSE)>>)

\* a report with a failure next to a success, and a report of four successes
\* on KEV-tagged, critical actions
MixedReport == ExecutionReport(<<Rollback(FALSE), Success(TRUE)>>)
BulkSuccessReport ==
    ExecutionReport(<<Success(TRUE), Success(TRUE), Success(TRUE), Success(TRUE)>>)

Reports ==
    [actions_included : BOOLEAN, script_filename : BOOLEAN, report_id : {""},
     acts : SeqsUpTo(ActionRecords, MaxActions)]
        \cup {TighteningReport, MixedReport, BulkSuccessReport}

\* one failing and one succeeding execution report
FewReports == {ExecutionReport(<<Rollback(FALSE)>>), ExecutionReport(<<Success(TRUE)>>)}

EventTypes == {"INGEST_REPORT", "NOTE"}
Actors == {"CLI_User", "System"}
DictPayloads == {EmptyDict, [isdict |-> TRUE, text |-> "{report_id: unknown}"]}
NonDictPayloads == {[isdict |-> FALSE, text |-> "null"]}

(***************************************************************************)
(* Processes.                                                              *)
(***************************************************************************)
NoReport == ExecutionReport(<<>>)
NoPayload == EmptyDict

\* a process's locals; tally keeps the counters of the report the process
\* handled last (rollbacks, successes, KEV counts) until its next command
IdleLoc ==
    [cmd |-> "none", report |-> NoReport,
     event_type |-> "", payload |-> NoPayload, actor |-> "",
     prev_hash |-> "", ts |-> 0, after |-> "",
     cur |-> 0, cur_cfg |-> GenesisConfig,
     pending |-> FALSE, new_cfg |-> GenesisConfig, new_row |-> 0,
     seen_active |-> 0, in_feedback |-> FALSE, pre |-> <<<<>>, <<>>, <<>>>>,
     tally |-> Tally(NoReport)]

Persisted == <<configs, ledger, samples>>

InitStore ==
    /\ configs = <<>>
    /\ ledger = <<>>
    /\ samples = <<>>
    /\ pc = [p \in Procs |-> "idle"]
    /\ loc = [p \in Procs |-> IdleLoc]
    /\ clock = 1
    /\ writer = 0
    /\ autoflush \in BOOLEAN
    /\ nextVer = 1
    /\ budget = 0
    /\ integrity = "unknown"

\* no analytical stage has been called
NoCall == call = "none" /\ arg = <<>> /\ result = <<>> /\ cache = <<>> /\ fetched = <<>>

Init == InitStore /\ NoCall /\ build = <<>>

CanWrite(p) == writer \in {0, p}

\* "python -m src.main init"
StartInit(p, max) ==
    /\ pc[p] = "idle" /\ budget < max
    /\ UNCHANGED pvars
    /\ budget' = budget + 1
    /\ pc' = [pc EXCEPT ![p] = "init_query"]
    /\ loc' = [loc EXCEPT ![p] = [IdleLoc EXCEPT !.cmd = "init"]]
    /\ UNCHANGED <<configs, ledger, samples, clock, writer, autoflush, nextVer, integrity>>

\* main(), init branch: query the active row
InitQuery(p) ==
    /\ pc[p] = "init_query"
    /\ UNCHANGED pvars
    /\ pc' = [pc EXCEPT ![p] = IF ActiveRows(configs) # {} THEN "status" ELSE "init_insert"]
    /\ UNCHANGED <<configs, ledger, samples, loc, clock, writer, autoflush, nextVer,
                   budget, integrity>>

\* main(), init branch: add the genesis row and commit
InitInsert(p) ==
    /\ pc[p] = "init_insert" /\ CanWrite(p)
    /\ UNCHANGED pvars
    /\ IF VersionFree(configs, GenesisConfig.version_id)
       THEN /\ configs' = Append(configs, GenesisConfig)
            /\ pc' = [pc EXCEPT ![p] = "status"]
       ELSE /\ configs' = configs
            /\ pc' = [pc EXCEPT ![p] = "crashed"]
    /\ writer' = 0
    /\ UNCHANGED <<ledger, samples, loc, clock, autoflush, nextVer, budget, integrity>>

\* "python -m src.main status"
StartStatus(p, max) ==
    /\ pc[p] = "idle" /\ budget < max
    /\ UNCHANGED pvars
    /\ budget' = budget + 1
    /\ pc' = [pc EXCEPT ![p] = "status"]
    /\ loc' = [loc EXCEPT ![p] = [IdleLoc EXCEPT !.cmd = "status"]]
    /\ UNCHANGED <<configs, ledger, samples, clock, writer, autoflush, nextVer, integrity>>

\* display_status: reads the store, verifies the ledger, writes status.json
DisplayStatus(p) ==
    /\ pc[p] = "status"
    /\ UNCHANGED pvars
    /\ IF ActiveRows(configs) # {}
       THEN \E ok \in VerifyOutcomes(ledger) :
                integrity' = IF ok THEN "verified" ELSE "tampered"
       ELSE integrity' = "tampered"
    /\ pc' = [pc EXCEPT ![p] = "idle"]
    /\ loc' = [loc EXCEPT ![p] = IdleLoc]
    /\ UNCHANGED <<configs, ledger, samples, clock, writer, autoflush, nextVer, budget>>

\* process_ingest up to its first log_event call
StartIngest(p, report, max) ==
    /\ pc[p] = "idle" /\ budget < max
    /\ UNCHANGED pvars
    /\ budget' = budget + 1
    /\ pc' = [pc EXCEPT ![p] = "log_read"]
    /\ loc' = [loc EXCEPT ![p] =
                  [IdleLoc EXCEPT !.cmd = "ingest", !.report = report,
                                  !.event_type = "INGEST_REPORT",
                                  !.payload = IngestPayload(report),
                                  !.actor = "CLI_User", !.after = "fb_get"]]
    /\ UNCHANGED <<configs, ledger, samples, clock, writer, autoflush, nextVer, integrity>>

\* a direct call of LearningEngine.process_execution_feedback
StartFeedback(p, report, max) ==
    /\ pc[p] = "idle" /\ budget < max
    /\ UNCHANGED pvars
    /\ budget' = budget + 1
    /\ pc' = [pc EXCEPT ![p] = "fb_get"]
    /\ loc' = [loc EXCEPT ![p] = [IdleLoc EXCEPT !.cmd = "feedback", !.report = report]]
    /\ UNCHANGED <<configs, ledger, samples, clock, writer, autoflush, nextVer, integrity>>

\* a direct call of TrustLedgerSystem.log_event
StartLogEvent(p, event_type, payload, actor, max) ==
    /\ pc[p] = "idle" /\ budget < max
    /\ UNCHANGED pvars
    /\ budget' = budget + 1
    /\ pc' = [pc EXCEPT ![p] = "log_read"]
    /\ loc' = [loc EXCEPT ![p] =
                  [IdleLoc EXCEPT !.cmd = "log_event", !.event_type = event_type,
                                  !.payload = payload, !.actor = actor, !.after = "idle"]]
    /\ UNCHANGED <<configs, ledger, samples, clock, writer, autoflush, nextVer, integrity>>

\* log_event, lines 30-32: _get_last_hash (a query: it flushes the pending rows
\* of an autoflush session, which takes the write lock) and datetime.now
LogRead(p, ts) ==
    /\ pc[p] = "log_read"
    /\ UNCHANGED pvars
    /\ IF autoflush /\ loc[p].pending
       THEN CanWrite(p) /\ writer' = p
       ELSE writer' = writer
    /\ \E h \in LastHashes(ledger) :
           loc' = [loc EXCEPT ![p].prev_hash = h, ![p].ts = ts]
    /\ pc' = [pc EXCEPT ![p] = "log_commit"]
    /\ UNCHANGED <<configs, ledger, samples, autoflush, nextVer, budget, integrity>>

\* faulty variant of AddEntry: the newest stored row is replaced
OverwriteLast(led, entry) ==
    IF Len(led) = 0 THEN <<entry>> ELSE [led EXCEPT ![Len(led)] = entry]
\* self.db.add(entry): an INSERT of the new row
AddEntry(led, entry) == Append(led, entry)

\* log_event, lines 34-47: build the row, add it, commit the session
LogCommit(p) ==
    /\ pc[p] = "log_commit" /\ CanWrite(p)
    /\ UNCHANGED pvars
    /\ ledger' = AddEntry(ledger, NewEntry(loc[p].prev_hash, loc[p].ts, loc[p].event_type,
                                         loc[p].payload, loc[p].actor))
    /\ IF loc[p].pending
       THEN /\ configs' = Append(configs, loc[p].new_cfg)
            /\ samples' = samples \o DriftSamples(loc[p].new_cfg)
       ELSE UNCHANGED <<configs, samples>>
    /\ writer' = 0
    /\ pc' = [pc EXCEPT ![p] = loc[p].after]
    /\ loc' = [loc EXCEPT ![p] =
                  IF loc[p].after = "idle" THEN IdleLoc
                  ELSE [loc[p] EXCEPT !.pending = FALSE,
                                      !.new_row = IF loc[p].pending THEN Len(configs) + 1 ELSE 0]]
    /\ UNCHANGED <<clock, autoflush, nextVer, budget, integrity>>

\* process_execution_feedback, lines 76-190: tally the report, build the new
\* configuration and the drift samples, add them to the session (the report
\* is not read again after these lines)
Prepare(p, row, cfgs) ==
    LET new == BuildConfig(cfgs[row], loc[p].report, NewVersion(nextVer))
    IN /\ loc' = [loc EXCEPT ![p].cur = row, ![p].cur_cfg = cfgs[row],
                             ![p].new_cfg = new, ![p].pending = TRUE,
                             ![p].report = NoReport,
                             ![p].tally = Tally(loc[p].report),
                             ![p].event_type = "LEARNING_UPDATE",
                             ![p].payload = LearningPayload(cfgs[row], new, loc[p].report),
                             ![p].actor = "LearningEngine",
                             ![p].after = "fb_switch",
                             ![p].seen_active = Cardinality(ActiveRows(cfgs)),
                             ![p].in_feedback = TRUE,
                             ![p].pre = <<cfgs, ledger, samples>>]
       /\ nextVer' = nextVer + 1
       /\ pc' = [pc EXCEPT ![p] = "log_read"]

\* get_active_config finding an active row (.first(): any of the active rows)
FbGet(p) ==
    /\ pc[p] = "fb_get"
    /\ UNCHANGED pvars
    /\ IF ActiveRows(configs) # {}
       THEN \E row \in ActiveRows(configs) : Prepare(p, row, configs)
       ELSE /\ pc' = [pc EXCEPT ![p] = "fb_genesis"]
            /\ UNCHANGED <<loc, nextVer>>
    /\ UNCHANGED <<configs, ledger, samples, clock, writer, autoflush, budget, integrity>>

\* get_active_config finding none: add the genesis row and commit
FbGenesis(p) ==
    /\ pc[p] = "fb_genesis" /\ CanWrite(p)
    /\ UNCHANGED pvars
    /\ IF VersionFree(configs, GenesisConfig.version_id)
       THEN /\ configs' = Append(configs, GenesisConfig)
            /\ Prepare(p, Len(configs) + 1, configs')
       ELSE /\ configs' = configs
            /\ pc' = [pc EXCEPT ![p] = "crashed"]
            /\ UNCHANGED <<loc, nextVer>>
    /\ writer' = 0
    /\ UNCHANGED <<ledger, samples, clock, autoflush, budget, integrity>>

\* lines 208-209: current_config.is_active = 0; new_config.is_active = 1
Switch(cfgs, old, new) == [cfgs EXCEPT ![old].is_active = 0, ![new].is_active = 1]

\* process_execution_feedback, lines 208-221: the switch and its commit
FbSwitch(p) ==
    /\ pc[p] = "fb_switch" /\ CanWrite(p)
    /\ UNCHANGED pvars
    /\ configs' = Switch(configs, loc[p].cur, loc[p].new_row)
    /\ writer' = 0
    /\ pc' = [pc EXCEPT ![p] = IF loc[p].cmd = "ingest" THEN "status" ELSE "idle"]
    /\ loc' = [loc EXCEPT ![p] = [IdleLoc EXCEPT !.tally = loc[p].tally]]
    /\ UNCHANGED <<ledger, samples, clock, autoflush, nextVer, budget, integrity>>

\* the process stops (killed, or an exception leaves main): the session's
\* uncommitted rows are lost and its lock is released
Crash(p) ==
    /\ pc[p] \notin {"idle", "crashed"}
    /\ UNCHANGED pvars
    /\ pc' = [pc EXCEPT ![p] = "crashed"]
    /\ writer' = IF writer = p THEN 0 ELSE writer
    /\ UNCHANGED <<configs, ledger, samples, loc, clock, autoflush, nextVer, budget, integrity>>

\* the operator's shell is free again
Restart(p) ==
    /\ pc[p] = "crashed"
    /\ UNCHANGED pvars
    /\ pc' = [pc EXCEPT ![p] = "idle"]
    /\ loc' = [loc EXCEPT ![p] = IdleLoc]
    /\ UNCHANGED <<configs, ledger, samples, clock, writer, autoflush, nextVer, budget, integrity>>

\* time passes between two readings of the clock
TickRead(p) == LogRead(p, clock) /\ clock' = clock + 1

(***************************************************************************)
(* Spec: the CLI processes run concurrently against one store; the clock   *)
(* is strictly increasing.                                                 *)
(***************************************************************************)
Next ==
    \E p \in Procs :
        \/ StartInit(p, MaxCommands)
        \/ InitQuery(p)
        \/ InitInsert(p)
        \/ DisplayStatus(p)
        \/ \E r \in FewReports : StartIngest(p, r, MaxCommands)
        \/ \E r \in FewReports : StartFeedback(p, r, MaxCommands)
        \/ TickRead(p)
        \/ LogCommit(p)
        \/ FbGet(p)
        \/ FbGenesis(p)
        \/ FbSwitch(p)
        \/ Restart(p)

Spec == Init /\ [][Next]_vars

(***************************************************************************)
(* SpecFeedback: one process calls process_execution_feedback again and    *)
(* again, with every report of the bounded report set.                     *)
(***************************************************************************)
InitOne == Init /\ autoflush = TRUE

NextFeedback ==
    \/ \E r \in Reports : StartFeedback(1, r, MaxCalls)
    \/ FbGet(1)
    \/ FbGenesis(1)
    \/ TickRead(1)
    \/ LogCommit(1)
    \/ FbSwitch(1)

SpecFeedback == InitOne /\ [][NextFeedback]_vars

(***************************************************************************)
(* SpecSeq: one CLI process at a time (init, status, ingest, direct        *)
(* feedback calls), which may stop at any point.                           *)
(***************************************************************************)
NextSeq ==
    \/ StartInit(1, MaxCalls)
    \/ InitQuery(1)
    \/ InitInsert(1)
    \/ StartStatus(1, MaxCalls)
    \/ DisplayStatus(1)
    \/ \E r \in FewReports : StartIngest(1, r, MaxCalls)
    \/ \E r \in FewReports : StartFeedback(1, r, MaxCalls)
    \/ TickRead(1)
    \/ LogCommit(1)
    \/ FbGet(1)
    \/ FbGenesis(1)
    \/ FbSwitch(1)
    \/ Crash(1)
    \/ Restart(1)

SpecSeq == Init /\ [][NextSeq]_vars

(***************************************************************************)
(* SpecLedger: direct log_event and verify_ledger_integrity calls by one   *)
(* caller, under a wall clock that may stand still or be set back.         *)
(***************************************************************************)
\* a direct call of verify_ledger_integrity
Verify(p) ==
    /\ pc[p] \in {"idle", "tampered"}
    /\ UNCHANGED pvars
    /\ \E ok \in VerifyOutcomes(ledger) :
           integrity' = IF ok THEN "verified" ELSE "tampered"
    /\ UNCHANGED <<configs, ledger, samples, pc, loc, clock, writer, autoflush, nextVer, budget>>

\* the clock read by log_event shows any time
AnyTimeRead(p) == \E ts \in 1..MaxTs : LogRead(p, ts) /\ clock' = ts

NextLedger ==
    \/ \E et \in EventTypes, pl \in DictPayloads, ac \in Actors :
           StartLogEvent(1, et, pl, ac, MaxEvents)
    \/ AnyTimeRead(1)
    \/ LogCommit(1)
    \/ Verify(1)

SpecLedger == InitOne /\ [][NextLedger]_vars

(***************************************************************************)
(* SpecTamper: a ledger built by log_event under an increasing clock, then *)
(* one stored field of one row is changed behind the program's back.       *)
(***************************************************************************)
Hashes(led) == {led[i].hash_id : i \in 1..Len(led)} \cup {ZeroHash, "deadbeef"}

\* the rows that differ from row e in exactly one stored field
TamperedRows(led, e) ==
    ({[e EXCEPT !.actor = a] : a \in Actors \cup {"Mallory"}}
     \cup {[e EXCEPT !.event_type = t] : t \in EventTypes \cup {"FORGED"}}
     \cup {[e EXCEPT !.payload = pl] : pl \in DictPayloads \cup NonDictPayloads}
     \cup {[e EXCEPT !.timestamp = ts] : ts \in 1..(MaxTs + 1)}
     \cup {[e EXCEPT !.previous_hash = h] : h \in Hashes(led)}
     \cup {[e EXCEPT !.hash_id = h] : h \in Hashes(led)}) \ {e}

Tamper(p) ==
    /\ pc[p] = "idle" /\ Len(ledger) >= 2
    /\ UNCHANGED pvars
    /\ \E i \in 1..Len(ledger) : \E row \in TamperedRows(ledger, ledger[i]) :
           ledger' = [ledger EXCEPT ![i] = row]
    /\ pc' = [pc EXCEPT ![p] = "tampered"]
    /\ UNCHANGED <<configs, samples, loc, clock, writer, autoflush, nextVer, budget, integrity>>

NextTamper ==
    \/ \E et \in EventTypes, pl \in DictPayloads, ac \in Actors :
           StartLogEvent(1, et, pl, ac, MaxEvents)
    \/ TickRead(1)
    \/ LogCommit(1)
    \/ Tamper(1)
    \/ Verify(1)

SpecTamper == InitOne /\ [][NextTamper]_vars

(***************************************************************************)
(* Properties.                                                             *)
(***************************************************************************)
Idle == \A p \in Procs : pc[p] = "idle"

\* C1: once a configuration row exists, exactly one row has is_active = 1,
\* whatever the interleaving of init, get_active_config and feedback calls.
C1_ExactlyOneActive == Len(configs) > 0 => Cardinality(ActiveRows(configs)) = 1

\* C2: a feedback cycle that stops before its end leaves the persisted
\* configurations, ledger entries and drift samples as they were when the
\* cycle began to write.
C2_CycleAtomic ==
    \A p \in Procs : (pc[p] = "crashed" /\ loc[p].in_feedback) => Persisted = loc[p].pre

\* C3: after serialized log_event calls on an empty ledger, each row's
\* previous_hash is the hash_id of the row inserted just before it and
\* verify_ledger_integrity returns true, whatever the timestamps.
C3_ChainByInsertion ==
    Idle =>
        /\ \A i \in 1..Len(ledger) :
               ledger[i].previous_hash = (IF i = 1 THEN ZeroHash ELSE ledger[i - 1].hash_id)
        /\ VerifyOutcomes(ledger) = {TRUE}

\* C4: no two ledger rows carry the same previous_hash (the chain never forks),
\* also when two writers append concurrently.
C4_NoFork ==
    \A i, j \in 1..Len(ledger) : i # j => ledger[i].previous_hash # ledger[j].previous_hash

\* C5: changing one stored field of one row of a ledger of at least two rows
\* makes verify_ledger_integrity return false.
C5_TamperDetected ==
    (pc[1] = "tampered" /\ Len(ledger) >= 2) => VerifyOutcomes(ledger) = {FALSE}

\* C6: the ledger is append-only: a step changes it only by a log_event commit,
\* which adds exactly one row and leaves the rows already stored as they were.
C6_Step ==
    /\ Len(ledger') >= Len(ledger)
    /\ SubSeq(ledger', 1, Len(ledger)) = ledger
    /\ \A p \in Procs :
           (pc[p] = "log_commit" /\ pc'[p] \notin {"log_commit", "crashed"})
               => Len(ledger') = Len(ledger) + 1
    /\ ledger' # ledger => \E p \in Procs : pc[p] = "log_commit" /\ pc'[p] = loc[p].after
C6_AppendOnly == [][C6_Step]_vars

\* a status display has verified a ledger that two ingests have written to
C6_Witness == Len(ledger) >= 3 /\ integrity = "verified" /\ Idle

\* C7: every active configuration has trust_momentum in [-0.35, 0.35],
\* containment_threshold in [0.40, 0.95] and disruptive_threshold in [0.60, 1.00].
C7_Bounds ==
    \A i \in ActiveRows(configs) :
        /\ configs[i].trust_momentum >= -MomentumMax
        /\ configs[i].trust_momentum <= MomentumMax
        /\ configs[i].containment_threshold >= ContainMin
        /\ configs[i].containment_threshold <= ContainMax
        /\ configs[i].disruptive_threshold >= DisruptMin
        /\ configs[i].disruptive_threshold <= DisruptMax

\* an update whose momentum and disruptive threshold were clamped is active
C7_Witness ==
    \E i \in ActiveRows(configs) :
        /\ configs[i].version_id # GenesisConfig.version_id
        /\ configs[i].trust_momentum = -MomentumMax
        /\ configs[i].disruptive_threshold = DisruptMax

\* the store after the genesis configuration has processed one report of two
\* actions, both rolled back, one of them KEV-tagged
C8_Scenario ==
    /\ Idle
    /\ Len(configs) = 2 /\ Len(ledger) = 1 /\ Len(samples) = 3
    /\ configs[1] = [GenesisConfig EXCEPT !.is_active = 0]
    /\ configs[2].is_active = 1
    /\ ledger[1].event_type = "LEARNING_UPDATE"
    /\ loc[1].tally.n = 2 /\ loc[1].tally.rollbacks = 2 /\ loc[1].tally.kev_failures = 1
    /\ samples[1].metric_name = "trust_momentum"

C8_Tightened ==
    /\ configs[2].trust_momentum < 0
    /\ configs[2].containment_threshold > GenesisContain
    /\ configs[2].failure_streak = 1

\* C8 as stated: adaptive tightening, with the trust_momentum drift sample
\* persisted without alert.
C8_NoAlert == C8_Scenario => (C8_Tightened /\ samples[1].alert_triggered = FALSE)

\* C8 as amended: adaptive tightening drives the momentum to the clamp -0.35,
\* so the trust_momentum drift sample is persisted with its alert raised.
C8_Alert ==
    C8_Scenario =>
        /\ C8_Tightened
        /\ configs[2].trust_momentum = -MomentumMax
        /\ samples[1].metric_value = -MomentumMax
        /\ samples[1].alert_triggered = TRUE

\* C9: while the stored ledger fails verification no ledger row is appended and
\* no configuration is created or activated.
C9_Step ==
    (TRUE \notin VerifyOutcomes(ledger)) => (ledger' = ledger /\ configs' = configs)
C9_WritesBlocked == [][C9_Step]_vars

\* C10: a feedback cycle that found more than one active row writes nothing:
\* no configuration, no ledger row, no is_active flag.
C10_Step ==
    \A p \in Procs :
        (loc[p].in_feedback /\ loc[p].seen_active > 1 /\ pc'[p] # pc[p])
            => (configs' = configs /\ ledger' = ledger)
C10_ConflictRefused == [][C10_Step]_vars

(***************************************************************************)
(* Session builder (Tool2/src/ingest.py).  Timestamps are minutes; scores  *)
(* are in 1/10000.  NULL is the null of a dataframe column.  Names are     *)
(* free of quotes and parentheses, which the session id drops.             *)
(***************************************************************************)
NULL == "NULL"
\* the null of a datetime or duration column
NullTime == -1
SessionWindow == 60
HighConfidence == 8000

UserNames == {"alice", NULL}
HostNames == {"web01", NULL}
Times == {0, 60, 121}
Scores == {3000, 9000}

RowFields ==
    [user : UserNames, source_host : HostNames, timestamp : Times,
     confidence_score : Scores]

\* the rows of the parquet files, in file order; event_id is unique
Batches ==
    UNION {{[i \in 1..n |->
                [event_id |-> i, user |-> f[i].user,
                 source_host |-> f[i].source_host,
                 timestamp |-> f[i].timestamp,
                 confidence_score |-> f[i].confidence_score]]
            : f \in [1..n -> RowFields]} : n \in 0..MaxBatch}

\* the same rows read from files that have no timestamp column
DropTimestamp(rows) == [i \in 1..Len(rows) |-> [rows[i] EXCEPT !.timestamp = NullTime]]

SessionArgs ==
    {[files |-> FALSE, has_timestamp |-> TRUE, rows |-> <<>>]}
    \cup {[files |-> TRUE, has_timestamp |-> TRUE, rows |-> b] : b \in Batches}
    \cup {[files |-> TRUE, has_timestamp |-> FALSE, rows |-> DropTimestamp(b)] :
              b \in Batches}

\* the tie orders of an unstable sort: a rank for every input position
TieOrders ==
    {f \in [1..MaxBatch -> 1..MaxBatch] : \A i, j \in 1..MaxBatch : i # j => f[i] # f[j]}

\* pl.coalesce([user, source_host, lit("System")])
Coalesce(row) ==
    IF row.user # NULL THEN row.user
    ELSE IF row.source_host # NULL THEN row.source_host ELSE "System"

\* the surrogate ids in string order
SurrogateOrder == <<"System", "alice", "web01">>
Rank(surrogate) == CHOOSE i \in 1..Len(SurrogateOrder) : SurrogateOrder[i] = surrogate

\* df.sort(["surrogate_id", "timestamp"]): the tie order is the build's
SortsBefore(a, b, ties) ==
    \/ Rank(Coalesce(a)) < Rank(Coalesce(b))
    \/ /\ Coalesce(a) = Coalesce(b)
       /\ \/ a.timestamp < b.timestamp
          \/ a.timestamp = b.timestamp /\ ties[a.event_id] < ties[b.event_id]

SortRows(rows, ties) ==
    LET R == {rows[i] : i \in 1..Len(rows)}
    IN [k \in 1..Len(rows) |->
           CHOOSE r \in R : Cardinality({o \in R : SortsBefore(o, r, ties)}) = k - 1]

\* timestamp.diff().over(surrogate_id), null for the first row of a surrogate
TimeDiff(df, k) ==
    IF k > 1 /\ Coalesce(df[k - 1]) = Coalesce(df[k])
    THEN df[k].timestamp - df[k - 1].timestamp ELSE NullTime

\* (time_diff.fill_null(365 days) > 60 min).cum_sum().over(surrogate_id)
SessionGroupId(df, k) ==
    Cardinality({j \in 1..k : /\ Coalesce(df[j]) = Coalesce(df[k])
                              /\ \/ TimeDiff(df, j) = NullTime
                                 \/ TimeDiff(df, j) > SessionWindow})

\* faulty variant of SessionId: the id numbers the call
SessionIdPerCall(surrogate) == "Activity " \o ToString(Len(result)) \o " on " \o surrogate

\* pl.format("Activity on {}", surrogate_id), as cleaned for Session.session_id
SessionId(surrogate) == "Activity on " \o surrogate

\* the dataframe after steps 1 to 5
WithColumns(rows, ties) ==
    LET df == SortRows(rows, ties)
    IN [k \in 1..Len(df) |->
           [row |-> df[k],
            surrogate_id |-> Coalesce(df[k]),
            session_group_id |-> SessionGroupId(df, k),
            unique_session_id |-> SessionId(Coalesce(df[k]))]]

\* the keys of partition_by("unique_session_id"), in order of first appearance
PartitionKeys(df) ==
    LET F == {k \in 1..Len(df) :
                 \A j \in 1..(k - 1) : df[j].unique_session_id # df[k].unique_session_id}
    IN [i \in 1..Cardinality(F) |->
           df[CHOOSE k \in F : Cardinality({j \in F : j < k}) = i - 1].unique_session_id]

PartitionBy(df, key) == SelectSeq(df, LAMBDA r : r.unique_session_id = key)

OrUnknown(v) == IF v = NULL THEN "Unknown" ELSE v

EnrichedEvent(row) ==
    [event_id |-> row.event_id, timestamp |-> row.timestamp,
     user |-> OrUnknown(row.user), source_host |-> OrUnknown(row.source_host),
     confidence_score |-> row.confidence_score]

\* lines 107-151: one Session per partition
BuildSession(s_id, group_df) ==
    LET rows == [k \in 1..Len(group_df) |-> group_df[k].row]
        unique_ips == Cardinality({rows[k].source_host : k \in 1..Len(rows)})
        high == \E k \in 1..Len(rows) : rows[k].confidence_score > HighConfidence
    IN [session_id |-> s_id,
        user |-> rows[1].user,
        start_time |-> rows[1].timestamp,
        end_time |-> rows[Len(rows)].timestamp,
        events |-> [k \in 1..Len(rows) |-> EnrichedEvent(rows[k])],
        is_high_priority |-> (unique_ips > 1 \/ high)]

Returned(v) == [status |-> "returned", value |-> v]

\* DataIngester.load_sessions
LoadSessions(a, ties) ==
    IF ~a.files THEN Returned(<<>>)
    ELSE IF ~a.has_timestamp THEN Returned(<<>>)
    ELSE LET df == WithColumns(a.rows, ties)
             keys == PartitionKeys(df)
         IN Returned([i \in 1..Len(keys) |-> BuildSession(keys[i], PartitionBy(df, keys[i]))])

InitSessions == InitStore /\ autoflush = TRUE /\ NoCall /\ build \in TieOrders

\* the first call of load_sessions on a batch
CallLoadSessions ==
    /\ call = "none"
    /\ \E a \in SessionArgs :
           /\ arg' = a
           /\ result' = <<LoadSessions(a, build)>>
    /\ call' = "load_sessions"
    /\ UNCHANGED <<gvars, build, cache, fetched>>

\* load_sessions called again on the same files
RecallLoadSessions ==
    /\ call = "load_sessions" /\ Len(result) < MaxCalls
    /\ result' = Append(result, LoadSessions(arg, build))
    /\ UNCHANGED <<gvars, call, arg, build, cache, fetched>>

NextSessions ==
    \/ CallLoadSessions
    \/ RecallLoadSessions

SpecSessions == InitSessions /\ [][NextSessions]_vars

\* the sessions of the first call, and the input row of an emitted event
Sessions == result[1].value
RowOf(event) == arg.rows[event.event_id]
Sessionized == call = "load_sessions" /\ arg.files /\ arg.has_timestamp

\* C11: in every emitted session all events share one surrogate identity and
\* no two consecutive events are more than 60 minutes apart.
C11_SessionWindow ==
    Sessionized =>
        \A i \in 1..Len(Sessions) :
            LET events == Sessions[i].events
            IN /\ \A j, k \in 1..Len(events) :
                      Coalesce(RowOf(events[j])) = Coalesce(RowOf(events[k]))
               /\ \A k \in 1..(Len(events) - 1) :
                      events[k + 1].timestamp - events[k].timestamp <= SessionWindow

\* C12: a batch without the timestamp column fails with MissingRequiredField
\* instead of returning a session list.
C12_MissingTimestamp ==
    (call = "load_sessions" /\ arg.files /\ ~arg.has_timestamp) =>
        \A i \in 1..Len(result) :
            result[i].status = "raised" /\ result[i].value = "MissingRequiredField"

Monitor == "Monitor User Behavior"

\* knowledge_base.py: cost, confidence threshold and the words of each action
Actions ==
    [a \in {Monitor, "Enable Process Auditing", "Enable Logon Failure Auditing",
            "Alert SOC (High Priority)", "Block Inbound SMB", "Block Inbound IP",
            "Disable Account", "Terminate Web Shell Process",
            "Restore Security Configurations", "Restrict File Access",
            "Isolate Host"} |->
        CASE a = Monitor ->
               [cost |-> 0, threshold |-> 0, words |-> {"Monitor", "User", "Behavior"}]
          [] a = "Enable Process Auditing" ->
               [cost |-> 1000, threshold |-> 1000, words |-> {"Enable", "Process", "Auditing"}]
          [] a = "Enable Logon Failure Auditing" ->
               [cost |-> 1000, threshold |-> 1000,
                words |-> {"Enable", "Logon", "Failure", "Auditing"}]
          [] a = "Alert SOC (High Priority)" ->
               [cost |-> 2000, threshold |-> 3500, words |-> {"Alert", "SOC", "High", "Priority"}]
          [] a = "Block Inbound SMB" ->
               [cost |-> 5000, threshold |-> 6000, words |-> {"Block", "Inbound", "SMB"}]
          [] a = "Block Inbound IP" ->
               [cost |-> 5000, threshold |-> 6000, words |-> {"Block", "Inbound", "IP"}]
          [] a = "Disable Account" ->
               [cost |-> 6000, threshold |-> 7500, words |-> {"Disable", "Account"}]
          [] a = "Terminate Web Shell Process" ->
               [cost |-> 7000, threshold |-> 7000,
                words |-> {"Terminate", "Web", "Shell", "Process"}]
          [] a = "Restore Security Configurations" ->
               [cost |-> 4000, threshold |-> 5000,
                words |-> {"Restore", "Security", "Configurations"}]
          [] a = "Restrict File Access" ->
               [cost |-> 5000, threshold |-> 6000, words |-> {"Restrict", "File", "Access"}]
          [] OTHER ->
               [cost |-> 9000, threshold |-> 8500, words |-> {"Isolate", "Host"}]]

ActionNames == DOMAIN Actions

\* ACTION_COSTS.get(strat, 0.0), CONFIDENCE_THRESHOLDS.get(strat, default)
ActionCost(strat) == IF strat \in ActionNames THEN Actions[strat].cost ELSE 0
ConfidenceThreshold(strat, default) ==
    IF strat \in ActionNames THEN Actions[strat].threshold ELSE default

\* TECHNIQUE_RESPONSE_MAP.get(target_tech, ["Monitor User Behavior"])
TechniqueResponse(tech) ==
    CASE tech = "T1078" -> <<"Disable Account", "Enable Logon Failure Auditing">>
      [] tech = "T1110" -> <<"Disable Account", "Alert SOC (High Priority)">>
      [] tech = "T1046" -> <<"Isolate Host", "Enable Process Auditing">>
      [] tech = "T1021" -> <<"Isolate Host", "Block Inbound SMB">>
      [] tech \in {"T1003", "T1560", "T1041"} -> <<"Isolate Host", "Alert SOC (High Priority)">>
      [] tech = "T1486" -> <<"Isolate Host">>
      [] tech \in {"T1190", "T1059"} -> <<"Isolate Host", "Enable Process Auditing">>
      [] tech = "T1505" -> <<"Isolate Host", "Terminate Web Shell Process">>
      [] tech = "T1562" -> <<"Isolate Host", "Restore Security Configurations">>
      [] tech = "T1592" -> <<"Enable Process Auditing", Monitor>>
      [] tech = "T1595" -> <<"Block Inbound IP", Monitor>>
      [] tech = "T1083" -> <<"Enable Process Auditing", "Restrict File Access">>
      [] OTHER -> <<Monitor>>

DisruptiveKeywords == {"Block", "Isolate", "Disable", "Reset", "Terminate"}

\* any(k in evaluated_action for k in disruptive_keywords)
IsDisruptiveName(action) ==
    action \in ActionNames /\ Actions[action].words \cap DisruptiveKeywords # {}

\* analyze_correlations: min(1.0 + session_count * 0.15, 1.6)
ConfidenceBoost(session_count) == Min2(10000 + session_count * 1500, 16000)

\* the correlation context of evaluate_session: {} or an entry of the
\* modifiers of analyze_correlations
NoCtx == [present |-> FALSE, session_count |-> 1, group_is_kev |-> FALSE, group_max_cvss |-> 0]
Contexts ==
    {NoCtx} \cup [present : {TRUE}, session_count : {1, 3}, group_is_kev : BOOLEAN,
                  group_max_cvss : {0, 98}]

\* what batch_lookup_cves and the CWE heuristic give for the session's own
\* vulnerabilities: KEV presence and the CVSS scores
\* analyze_correlations puts the session itself in its group
ContextsFor(f) == {ctx \in Contexts : (ctx.present /\ f.vuln.is_kev) => ctx.group_is_kev}

VulnContexts == {[is_kev |-> FALSE, cvss |-> 0], [is_kev |-> FALSE, cvss |-> 75],
                 [is_kev |-> FALSE, cvss |-> 98], [is_kev |-> TRUE, cvss |-> 98],
                 [is_kev |-> TRUE, cvss |-> 75]}

TargetTechs == {"T1190", "T1595", "T1078", "T1505", "T0000"}
Scenarios ==
    [sequence : {<<t>> : t \in TargetTechs}, probability : {1500, 5000},
     min_seconds : {60, 20000}]
Confidences == {1200, 3000, 5000, 8000, 10000}

\* forecasts of two scenarios, in either order of probability
ScenarioPairs ==
    LET some == [sequence : {<<"T1505">>, <<"T1078">>}, probability : {1500, 5000},
                 min_seconds : {60}]
    IN {<<x, y>> : x \in some, y \in some}

Forecasts ==
    [aggregate_confidence : Confidences, vuln : VulnContexts,
     predicted_scenarios : SeqsUpTo(Scenarios, MaxScenarios) \cup ScenarioPairs]

\* lines 73-74
DecisionConf(f, ctx) ==
    LET boost_mult == IF ctx.present THEN ConfidenceBoost(ctx.session_count) ELSE 10000
    IN Min2((f.aggregate_confidence * boost_mult) \div 10000, 10000)

\* lines 99-100
IsKev(f, ctx) == IF ctx.present THEN ctx.group_is_kev ELSE f.vuln.is_kev
MaxCvss(f, ctx) == Max2(f.vuln.cvss, IF ctx.present THEN ctx.group_max_cvss ELSE 0)

\* faulty variant of RejectionReasons: the cost rule rejects the probable
\* scenarios instead of the improbable ones
RejectionReasonsCostInverted(f, ctx, scenario, strat) ==
    LET required_conf == ConfidenceThreshold(strat, 10000)
        cost == ActionCost(strat)
        is_urgent_session == IsKev(f, ctx) \/ MaxCvss(f, ctx) >= 90
        effective_conf_threshold ==
            IF is_urgent_session /\ strat # Monitor
            THEN Max2(1000, required_conf - 2000) ELSE required_conf
        eval_prob == (scenario.probability * (10000 + (ctx.session_count - 1) * 1000))
                         \div 10000
    IN (IF DecisionConf(f, ctx) < effective_conf_threshold THEN <<"confidence">> ELSE <<>>)
       \o (IF eval_prob >= 2000 /\ cost > 6000 THEN <<"cost">> ELSE <<>>)

\* lines 117-136: the reasons to reject strat for scenario
RejectionReasons(f, ctx, scenario, strat) ==
    LET required_conf == ConfidenceThreshold(strat, 10000)
        cost == ActionCost(strat)
        is_urgent_session == IsKev(f, ctx) \/ MaxCvss(f, ctx) >= 90
        effective_conf_threshold ==
            IF is_urgent_session /\ strat # Monitor
            THEN Max2(1000, required_conf - 2000) ELSE required_conf
        eval_prob == (scenario.probability * (10000 + (ctx.session_count - 1) * 1000))
                         \div 10000
    IN (IF DecisionConf(f, ctx) < effective_conf_threshold THEN <<"confidence">> ELSE <<>>)
       \o (IF eval_prob < 2000 /\ cost > 6000 THEN <<"cost">> ELSE <<>>)

\* the (scenario, strategy) pairs in the order the loops of lines 108-149 try them
RECURSIVE Candidates(_, _)
Candidates(scenarios, k) ==
    IF k > Len(scenarios) THEN <<>>
    ELSE LET strategies == IF scenarios[k].sequence = <<>> THEN <<>>
                           ELSE TechniqueResponse(scenarios[k].sequence[1])
         IN [i \in 1..Len(strategies) |-> [scenario |-> k, strat |-> strategies[i]]]
            \o Candidates(scenarios, k + 1)

\* faulty variant of ApprovalFor: the borderline rule yields to the KEV rule
ApprovalKevLast(action, is_kev, decision_conf) ==
    LET act_class == IF IsDisruptiveName(action) THEN "Disruptive" ELSE "Containment"
        threshold == ConfidenceThreshold(action, 0)
        borderline == threshold > 0 /\ decision_conf - threshold < 500
    IN IF is_kev /\ act_class = "Containment" THEN FALSE
       ELSE (act_class = "Disruptive" \/ borderline)

\* faulty variant of ApprovalFor: the KEV rule ignores the class
ApprovalKevAnyClass(action, is_kev, decision_conf) ==
    LET threshold == ConfidenceThreshold(action, 0)
        borderline == threshold > 0 /\ decision_conf - threshold < 500
    IN IF borderline THEN TRUE ELSE IF is_kev THEN FALSE ELSE IsDisruptiveName(action)

\* lines 201-219: act_approval
ApprovalFor(action, is_kev, decision_conf) ==
    LET act_class == IF IsDisruptiveName(action) THEN "Disruptive" ELSE "Containment"
        by_class == act_class = "Disruptive"
        by_kev == IF is_kev /\ act_class = "Containment" THEN FALSE ELSE by_class
        threshold == ConfidenceThreshold(action, 0)
    IN IF threshold > 0 /\ decision_conf - threshold < 500 THEN TRUE ELSE by_kev

\* faulty variant of Urgency: KEV presence is not looked at
UrgencyNoKev(min_time, is_kev, max_cvss, decision_conf) ==
    LET u == IF min_time < 300 \/ max_cvss >= 90 THEN "Critical"
             ELSE IF min_time < 3600 \/ max_cvss >= 70 THEN "High"
             ELSE IF min_time < 14400 THEN "Medium" ELSE "Low"
    IN IF decision_conf < 3500 THEN "Low" ELSE u

\* lines 164-169
Urgency(min_time, is_kev, max_cvss, decision_conf) ==
    LET u == IF min_time < 300 \/ is_kev \/ max_cvss >= 90 THEN "Critical"
             ELSE IF min_time < 3600 \/ max_cvss >= 70 THEN "High"
             ELSE IF min_time < 14400 THEN "Medium" ELSE "Low"
    IN IF decision_conf < 3500 /\ ~is_kev THEN "Low" ELSE u

\* _build_monitor_only; the action's class, approval and vulnerability details
\* are the defaults of RecommendedAction
BuildMonitorOnly(conf) ==
    [decision_confidence |-> conf,
     urgency_level |-> "Low",
     recommended_actions |->
         <<[action_type |-> Monitor, action_class |-> "Containment",
            requires_approval |-> FALSE, is_kev |-> FALSE]>>,
     rejected_actions |-> <<>>]

\* DecisionEngine.evaluate_session
EvaluateSession(f, ctx) ==
    LET decision_conf == DecisionConf(f, ctx)
        is_kev == IsKev(f, ctx)
        max_cvss == MaxCvss(f, ctx)
        scenarios == f.predicted_scenarios
        cands == Candidates(scenarios, 1)
        Reasons(i) == RejectionReasons(f, ctx, scenarios[cands[i].scenario], cands[i].strat)
        passing == {i \in 1..Len(cands) : Reasons(i) = <<>>}
        sel == IF passing = {} THEN 0 ELSE CHOOSE i \in passing : \A j \in passing : i <= j
        tried == IF sel = 0 THEN Len(cands) ELSE sel - 1
        rejections == [i \in 1..tried |->
                          [candidate_action |-> cands[i].strat,
                           rejection_reasons |-> Reasons(i)]]
        evaluated_action == IF sel = 0 THEN Monitor ELSE cands[sel].strat
    IN IF scenarios = <<>> THEN BuildMonitorOnly(decision_conf)
       ELSE LET primary_scenario == IF sel = 0 THEN scenarios[1]
                                    ELSE scenarios[cands[sel].scenario]
                min_time == primary_scenario.min_seconds
            IN [decision_confidence |-> decision_conf,
                urgency_level |-> Urgency(min_time, is_kev, max_cvss, decision_conf),
                recommended_actions |->
                    <<[action_type |-> evaluated_action,
                       action_class |-> IF IsDisruptiveName(evaluated_action)
                                        THEN "Disruptive" ELSE "Containment",
                       requires_approval |->
                           ApprovalFor(evaluated_action, is_kev, decision_conf),
                       is_kev |-> is_kev]>>,
                rejected_actions |-> rejections]

InitDecision == InitStore /\ autoflush = TRUE /\ NoCall /\ build = <<>>

\* evaluate_session called on a forecast and its correlation context
CallEvaluateSession ==
    /\ call = "none"
    /\ \E f \in Forecasts : \E ctx \in ContextsFor(f) :
           /\ arg' = [forecast |-> f, ctx |-> ctx]
           /\ result' = <<Returned(EvaluateSession(f, ctx))>>
    /\ call' = "evaluate_session"
    /\ UNCHANGED <<gvars, build, cache, fetched>>

NextDecision == CallEvaluateSession

SpecDecision == InitDecision /\ [][NextDecision]_vars

\* the decision returned and its one recommended action
Decided == call = "evaluate_session"
Decision == result[1].value
Recommended == Decision.recommended_actions[1]

\* C14: recommended_actions is non-empty, every rejected action has a reason,
\* and a recommended action with a disruptive name requires approval unless
\* it is KEV-tagged and of class Containment.
C14_DecisionSafety ==
    Decided =>
        /\ Len(Decision.recommended_actions) >= 1
        /\ \A i \in 1..Len(Decision.rejected_actions) :
               Len(Decision.rejected_actions[i].rejection_reasons) >= 1
        /\ \A i \in 1..Len(Decision.recommended_actions) :
               LET a == Decision.recommended_actions[i]
               IN IsDisruptiveName(a.action_type) =>
                      (a.requires_approval \/ (a.is_kev /\ a.action_class = "Containment"))

\* a KEV decision recommending a disruptive action after rejecting another
C14_Witness ==
    /\ Decided /\ Recommended.is_kev
    /\ IsDisruptiveName(Recommended.action_type)
    /\ Len(Decision.rejected_actions) >= 1

Borderline(a, decision_conf) ==
    ConfidenceThreshold(a.action_type, 0) > 0
        /\ decision_conf - ConfidenceThreshold(a.action_type, 0) < 500

C16_Scenario ==
    /\ Decided /\ arg.forecast.vuln.is_kev
    /\ Recommended.action_type = "Isolate Host"

\* C16 as stated: urgency Critical and "Isolate Host" without approval.
C16_IsolateAuto ==
    C16_Scenario =>
        (Decision.urgency_level = "Critical" /\ ~Recommended.requires_approval)

\* C16 as amended: urgency Critical, and "Isolate Host", of class Disruptive,
\* requires approval.
C16_IsolateNeedsApproval ==
    C16_Scenario =>
        /\ Decision.urgency_level = "Critical"
        /\ Recommended.action_class = "Disruptive"
        /\ Recommended.requires_approval

(***************************************************************************)
(* Trajectory forecaster (Tool3/src/predictor.py).  Probabilities are in   *)
(* 1/10000, modifiers in 1/100.  The transition matrix and the             *)
(* prerequisite table are static data of the build: build.matrix maps a    *)
(* technique to its list of <<next_tech, base_prob>>, build.prereq maps a  *)
(* technique to the set of its prerequisites.  Reaction-time windows are   *)
(* left out.                                                               *)
(***************************************************************************)
MaxDepth == 3
TopK == 5
PruneBelow == 1000

MatrixTechs == {"T1595", "T1078", "T1021", "T1041"}

\* the rows a transition matrix may hold for a technique
RowChoices(t) ==
    CASE t = "T1595" -> { <<>>, << <<"T1078", 6000>>, <<"T1021", 4000>> >> }
      [] t = "T1078" -> { << <<"T1021", 9000>>, <<"T1041", 5000>> >> }
      [] t = "T1021" -> { << <<"T1041", 10000>>, <<"T1078", 5000>> >>,
                          << <<"T1021", 8000>>, <<"T1595", 3000>> >> }
      [] OTHER -> { <<>> }

Matrices ==
    {m \in [MatrixTechs -> UNION {RowChoices(t) : t \in MatrixTechs}] :
        \A t \in MatrixTechs : m[t] \in RowChoices(t)}

\* prerequisite tables: a prerequisite comes earlier in the kill chain
PrereqTables ==
    { [t \in MatrixTechs |-> {}],
      [t \in MatrixTechs |-> IF t = "T1021" THEN {"T1078"} ELSE {}],
      [t \in MatrixTechs |->
          CASE t = "T1078" -> {"T1595"}
            [] t = "T1021" -> {"T1078", "T1595"}
            [] t = "T1041" -> {"T1021"}
            [] OTHER -> {}] }

\* TRANSITION_MATRIX.get(curr, []), PREREQUISITES.get(other, [])
Transitions(curr) == IF curr \in DOMAIN build.matrix THEN build.matrix[curr] ELSE <<>>
Prerequisites(other) == IF other \in DOMAIN build.prereq THEN build.prereq[other] ELSE {}

\* CWE_MAP, for the weakness the model observes
CweMap(cwe_id) == IF cwe_id = "CWE-287" THEN {"T1078", "T1110"} ELSE {}

\* the current state and the vulnerability context of a session: cwe287 says
\* that CWE-287 is among the observed vulnerability ids, kev that a CVE of
\* the session is in KEV (that CVE's weakness is CWE-287)
ObservedSeqs ==
    {o \in SeqsUpTo({"T1595", "T1078", "T1021", "T1560"}, MaxObserved) :
        \A i, j \in 1..Len(o) : i # j => o[i] # o[j]}

PredictArgs ==
    [observed_techniques : ObservedSeqs, host_scope : {1, 3},
     cwe287 : BOOLEAN, kev : BOOLEAN, current_risk : {1000, 6000}]

ObservedVulnerabilities(a) == IF a.cwe287 THEN {"CWE-287"} ELSE {}
AllCwes(a) == IF a.kev THEN {"CWE-287"} ELSE {}

\* lines 40-50: all_potential_seeds, as a set
PotentialSeeds(a) ==
    LET observed == {a.observed_techniques[i] : i \in 1..Len(a.observed_techniques)}
        enabled == UNION {CweMap(c) : c \in ObservedVulnerabilities(a)}
    IN IF observed \cup enabled = {} THEN {"T1595"} ELSE observed \cup enabled

\* faulty variant of IsSuperseded: the deeper technique is dropped
IsSupersededReversed(s, candidates) ==
    \E other \in candidates : s # other /\ other \in Prerequisites(s)

\* lines 54-60
IsSuperseded(s, candidates) ==
    \E other \in candidates : s # other /\ s \in Prerequisites(other)

\* lines 52-62
Seeds(a) == {s \in PotentialSeeds(a) : ~IsSuperseded(s, PotentialSeeds(a))}

\* faulty variant of Modifier: the blast radius is not looked at
ModifierAnyScope(a, next_tech) ==
    LET m1 == IF \E c \in AllCwes(a) : next_tech \in CweMap(c) THEN 140 ELSE 100
        m2 == IF a.kev THEN (m1 * 120) \div 100 ELSE m1
    IN IF next_tech = "T1041" /\ \E i \in 1..Len(a.observed_techniques) :
                                     a.observed_techniques[i] = "T1560"
       THEN (m2 * 150) \div 100 ELSE m2

\* lines 163-179
Modifier(a, next_tech) ==
    LET m1 == IF \E c \in AllCwes(a) : next_tech \in CweMap(c) THEN 140 ELSE 100
        m2 == IF a.kev THEN (m1 * 120) \div 100 ELSE m1
        m3 == IF next_tech = "T1021" /\ a.host_scope < 2 THEN 0 ELSE m2
    IN IF next_tech = "T1041" /\ \E i \in 1..Len(a.observed_techniques) :
                                     a.observed_techniques[i] = "T1560"
       THEN (m3 * 150) \div 100 ELSE m3

\* round(min(prob, 1.0), 3)
RoundProbability(prob) == ((Min2(prob, 10000) + 5) \div 10) * 10

\* _build_scenario
BuildScenario(sequence, prob) ==
    [sequence |-> sequence, probability |-> RoundProbability(prob),
     risk_level |-> IF sequence[Len(sequence)] \in {"T1041", "T1486"} THEN "Critical"
                    ELSE IF sequence[Len(sequence)] \in {"T1003", "T1021"} THEN "High"
                    ELSE "Medium"]

\* lines 162-191: the transitions of the popped item, from the k-th on
RECURSIVE Expand(_, _, _, _, _)
Expand(a, item, k, queue, visited) ==
    LET row == Transitions(item.curr)
    IN IF k > Len(row) THEN [queue |-> queue, visited |-> visited]
       ELSE LET next_tech == row[k][1]
                new_prob == (((item.prob * row[k][2]) \div 10000)
                                 * Modifier(a, next_tech)) \div 100
                new_path == Append(item.path, next_tech)
            IN IF new_prob < PruneBelow \/ new_path \in visited
               THEN Expand(a, item, k + 1, queue, visited)
               ELSE Expand(a, item, k + 1,
                           Append(queue, [curr |-> next_tech, path |-> new_path,
                                          prob |-> new_prob]),
                           visited \cup {new_path})

\* lines 156-191: the while loop
RECURSIVE Traverse(_, _, _, _)
Traverse(a, queue, visited, scenarios) ==
    IF queue = <<>> THEN scenarios
    ELSE LET item == Head(queue)
             emitted == IF Len(item.path) > 0
                        THEN Append(scenarios, BuildScenario(item.path, item.prob))
                        ELSE scenarios
         IN IF Len(item.path) >= MaxDepth
            THEN Traverse(a, Tail(queue), visited, emitted)
            ELSE LET x == Expand(a, item, 1, Tail(queue), visited)
                 IN Traverse(a, x.queue, x.visited, emitted)

\* sorted(..., key=probability, reverse=True): stable
RECURSIVE InsertByProbability(_, _)
InsertByProbability(sorted, sc) ==
    IF sorted = <<>> THEN <<sc>>
    ELSE IF Head(sorted).probability >= sc.probability
         THEN <<Head(sorted)>> \o InsertByProbability(Tail(sorted), sc)
         ELSE <<sc>> \o sorted

RECURSIVE SortFrom(_, _, _)
SortFrom(scs, k, sorted) ==
    IF k > Len(scs) THEN sorted
    ELSE SortFrom(scs, k + 1, InsertByProbability(sorted, scs[k]))

SortByProbability(scs) == SortFrom(scs, 1, <<>>)

\* faulty variant of Top: the list is not cut
TopUncut(scs) == scs

\* [:5]
Top(scs) == SubSeq(scs, 1, Min2(Len(scs), TopK))

\* _bfs_probabilistic_traversal
BfsProbabilisticTraversal(a, start_node) ==
    Top(SortByProbability(
            Traverse(a, <<[curr |-> start_node, path |-> <<>>, prob |-> 10000]>>, {}, <<>>)))

\* lines 65-69: the scenarios of the seeds, in seed order
RECURSIVE AllRawScenarios(_, _, _)
AllRawScenarios(a, seed_order, k) ==
    IF k > Len(seed_order) THEN <<>>
    ELSE BfsProbabilisticTraversal(a, seed_order[k]) \o AllRawScenarios(a, seed_order, k + 1)

\* lines 72-76: one scenario per sequence, the first of greatest probability,
\* at the place of the first scenario of that sequence
Deduplicate(raw) ==
    LET firsts == {i \in 1..Len(raw) :
                      \A j \in 1..(i - 1) : raw[j].sequence # raw[i].sequence}
        Best(i) == LET same == {j \in 1..Len(raw) : raw[j].sequence = raw[i].sequence}
                       top == {j \in same : \A m \in same :
                                  raw[j].probability >= raw[m].probability}
                   IN raw[CHOOSE j \in top : \A m \in top : j <= m]
    IN [k \in 1..Cardinality(firsts) |->
           Best(CHOOSE i \in firsts : Cardinality({j \in firsts : j < i}) = k - 1)]

\* lines 84-95
AggregateConfidence(a, final_scenarios) ==
    LET vuln_grounding_factor == Min2(Cardinality(ObservedVulnerabilities(a)) * 1500, 4500)
        probs == {final_scenarios[i].probability : i \in 1..Len(final_scenarios)}
        max_prob == IF probs = {} THEN 4000
                    ELSE CHOOSE x \in probs : \A y \in probs : x >= y
        kev_boost == Min2((IF a.kev THEN 1 ELSE 0) * 2000, 4000)
        risk_floor == IF a.current_risk > 5000 THEN 4000
                      ELSE IF a.current_risk > 1500 THEN 2000 ELSE 0
        total == Min2((max_prob * 25) \div 100 + vuln_grounding_factor + kev_boost
                          + risk_floor, 10000)
    IN ((total + 50) \div 100) * 100

\* lines 101-113
NarrativePrefix(a, aggregate_confidence) ==
    LET observed == {a.observed_techniques[i] : i \in 1..Len(a.observed_techniques)}
        is_exploitation == observed \cap {"T1190", "T1059", "T1505", "T1110"} # {}
                               \/ a.current_risk > 1500
        is_recon == observed \cap {"T1595", "T1592", "T1046", "T1083"} # {}
    IN IF aggregate_confidence > 7000 THEN "CRITICAL ALERT"
       ELSE IF is_exploitation THEN "URGENT"
       ELSE IF is_recon THEN "RECONNAISSANCE"
       ELSE IF aggregate_confidence > 3000 THEN "ANOMALY"
       ELSE "Baseline"

\* TrajectoryEngine.predict, the seeds being walked in seed_order
Predict(a, seed_order) ==
    LET final_scenarios ==
            Top(SortByProbability(Deduplicate(AllRawScenarios(a, seed_order, 1))))
        aggregate_confidence == AggregateConfidence(a, final_scenarios)
    IN [seeds |-> seed_order,
        predicted_scenarios |-> final_scenarios,
        aggregate_confidence |-> aggregate_confidence,
        narrative_prefix |-> NarrativePrefix(a, aggregate_confidence)]

\* list(set(...)): the orders in which a set may be walked
OrdersOf(S) ==
    {o \in [1..Cardinality(S) -> S] : \A i, j \in 1..Cardinality(S) : i # j => o[i] # o[j]}

InitForecast ==
    /\ InitStore /\ autoflush = TRUE /\ NoCall
    /\ build \in [matrix : Matrices, prereq : PrereqTables]

\* predict called on a session's current state
CallPredict ==
    /\ call = "none"
    /\ \E a \in PredictArgs : \E seed_order \in OrdersOf(Seeds(a)) :
           /\ arg' = a
           /\ result' = <<Returned(Predict(a, seed_order))>>
    /\ call' = "predict"
    /\ UNCHANGED <<gvars, build, cache, fetched>>

NextForecast == CallPredict

SpecForecast == InitForecast /\ [][NextForecast]_vars

Predicted == call = "predict"
Summary == result[1].value
ScenariosOf(summary) == summary.predicted_scenarios

\* C17: a prediction summary holds at most five scenarios, each with a
\* probability between 0 and 1 and a sequence of one to three techniques, and
\* the scenarios are in non-increasing order of probability.
C17_SummaryBounds ==
    Predicted =>
        LET scs == ScenariosOf(Summary)
        IN /\ Len(scs) <= 5
           /\ \A i \in 1..Len(scs) :
                  /\ scs[i].probability >= 0 /\ scs[i].probability <= 10000
                  /\ Len(scs[i].sequence) >= 1 /\ Len(scs[i].sequence) <= 3
           /\ \A i \in 1..(Len(scs) - 1) : scs[i].probability >= scs[i + 1].probability

\* a summary cut to five scenarios, the first clamped to probability 1, the
\* last less probable and three techniques long
C17_Witness ==
    /\ Predicted
    /\ Len(ScenariosOf(Summary)) = 5
    /\ ScenariosOf(Summary)[1].probability = 10000
    /\ ScenariosOf(Summary)[5].probability < 10000
    /\ \E i \in 1..5 : Len(ScenariosOf(Summary)[i].sequence) = 3

\* C18: when the host scope holds fewer than two hosts, no predicted scenario
\* contains T1021, whatever the seeds and the vulnerability context.
C18_NoLateralOnOneHost ==
    Predicted /\ arg.host_scope < 2 =>
        \A i \in 1..Len(ScenariosOf(Summary)) :
            \A k \in 1..Len(ScenariosOf(Summary)[i].sequence) :
                ScenariosOf(Summary)[i].sequence[k] # "T1021"

\* one host, a seed whose transitions lead to T1021, and scenarios predicted
C18_Witness ==
    /\ Predicted /\ arg.host_scope < 2
    /\ \E k \in 1..Len(Summary.seeds) :
           \E n \in 1..Len(Transitions(Summary.seeds[k])) :
               Transitions(Summary.seeds[k])[n][1] = "T1021"
    /\ Len(ScenariosOf(Summary)) >= 2

\* the candidates of a call: observed techniques and vulnerability-enabled ones
CandidatesOf(a) ==
    {a.observed_techniques[i] : i \in 1..Len(a.observed_techniques)}
        \cup (IF a.cwe287 THEN {"T1078", "T1110"} ELSE {})

\* the candidates that are not a prerequisite of another candidate
NotPrerequisite(a) ==
    {s \in CandidatesOf(a) :
        \A other \in CandidatesOf(a) \ {s} :
            other \in DOMAIN build.prereq => s \notin build.prereq[other]}

LogTimesTen(m) ==
    CASE m = 1 -> 0 [] m = 2 -> 301 [] m = 3 -> 477 [] m = 4 -> 602
      [] m = 5 -> 699 [] m = 6 -> 778 [] m = 7 -> 845 [] m = 8 -> 903
      [] m = 9 -> 954 [] m = 10 -> 1000 [] m = 11 -> 1041 [] m = 12 -> 1079
      [] m = 13 -> 1114 [] m = 14 -> 1146

\* engine.py lines 311-327: final_score
FinalScore(tech_count, event_count, kev_count, highest_cvss) ==
    LET diversity_score == Min2(tech_count * 1000, 7000)
        volume_score == Min2(LogTimesTen(event_count + 1), 3000)
        final_score == diversity_score + volume_score
    IN IF kev_count > 0 THEN Min2((final_score * 15) \div 10, 10000)
       ELSE IF highest_cvss >= 90 THEN Min2((final_score * 125) \div 100, 9500)
       ELSE final_score

\* faulty variant of PathAnomalyScore: the escalated score is not capped
PathAnomalyScoreUncapped(tech_count, event_count, kev_count, highest_cvss) ==
    LET final_score == tech_count * 1000 + LogTimesTen(event_count + 1)
    IN IF kev_count > 0 THEN (final_score * 15) \div 10
       ELSE IF highest_cvss >= 90 THEN (final_score * 125) \div 100
       ELSE final_score

\* engine.py line 354: path_anomaly_score
PathAnomalyScore(tech_count, event_count, kev_count, highest_cvss) ==
    Min2(FinalScore(tech_count, event_count, kev_count, highest_cvss), 10000)

\* engine.py lines 330-333: business_risk
BusinessRisk(tech_count, event_count, kev_count, highest_cvss) ==
    LET final_score == FinalScore(tech_count, event_count, kev_count, highest_cvss)
    IN IF final_score > 7000 \/ kev_count > 0 THEN "High"
       ELSE IF final_score > 3000 \/ highest_cvss >= 90 THEN "Medium"
       ELSE IF final_score > 1000 THEN "Low"
       ELSE "Informational"

DwellChoices == {60, 20000}

\* the correlation contexts a session without vulnerabilities can get: alone
\* in its group it brings no KEV and no CVSS score to it
ReconContexts ==
    {ctx \in Contexts : ctx.present /\ ctx.session_count = 1
                            => ~ctx.group_is_kev /\ ctx.group_max_cvss = 0}

\* a session of event_count events, all of technique T1595, without any
\* vulnerability id: report, forecast and decision
ReconPipeline(event_count, host_scope, ctx) ==
    LET score == PathAnomalyScore(1, event_count, 0, 0)
        state == [observed_techniques |-> <<"T1595">>, host_scope |-> host_scope,
                  cwe287 |-> FALSE, kev |-> FALSE, current_risk |-> score]
        summary == Predict(state, <<"T1595">>)
        scs == summary.predicted_scenarios
        forecast == [aggregate_confidence |-> summary.aggregate_confidence,
                     vuln |-> [is_kev |-> FALSE, cvss |-> 0],
                     predicted_scenarios |->
                         [i \in 1..Len(scs) |->
                             [sequence |-> scs[i].sequence,
                              probability |-> scs[i].probability,
                              min_seconds |-> Len(scs[i].sequence) * build.dwell]]]
    IN [path_anomaly_score |-> score,
        summary |-> summary,
        decision |-> EvaluateSession(forecast, ctx)]

InitRecon ==
    /\ InitStore /\ autoflush = TRUE /\ NoCall
    /\ build \in [matrix : Matrices, prereq : PrereqTables, dwell : DwellChoices]

\* the three stages run on one reconnaissance session
RunRecon ==
    /\ call = "none"
    /\ \E event_count \in 1..MaxReconEvents : \E host_scope \in {1, 3} :
       \E ctx \in ReconContexts :
           /\ arg' = [event_count |-> event_count, host_scope |-> host_scope, ctx |-> ctx]
           /\ result' = <<Returned(ReconPipeline(event_count, host_scope, ctx))>>
    /\ call' = "pipeline"
    /\ UNCHANGED <<gvars, build, cache, fetched>>

NextRecon == RunRecon

SpecRecon == InitRecon /\ [][NextRecon]_vars

ReconDone == call = "pipeline"
Recon == result[1].value

\* C20: for a session whose only technique is T1595 and that has no
\* vulnerability id, whatever its number of events, the anomaly score is at
\* most 20, the aggregate confidence at most 0.3, the narrative begins with
\* RECONNAISSANCE, and the decision has urgency Low with action
\* "Block Inbound IP" or "Monitor User Behavior".
C20_PureRecon ==
    ReconDone =>
        /\ Recon.path_anomaly_score <= 2000
        /\ Recon.summary.aggregate_confidence <= 3000
        /\ Recon.summary.narrative_prefix = "RECONNAISSANCE"
        /\ Recon.decision.urgency_level = "Low"
        /\ Recon.decision.recommended_actions[1].action_type
               \in {"Block Inbound IP", Monitor}

(***************************************************************************)
(* The report of a session (Tool2/src/engine.py, _compute_metrics): the    *)
(* score and the business risk depend on the number of unique techniques,  *)
(* the number of events and what the catalog says of the session's CVEs.   *)
(***************************************************************************)
CvssValues == {0, 75, 90, 100}

\* the metrics of a non-empty session
ReportArgs ==
    [tech_count : 0..MaxTechniques, event_count : 1..MaxReconEvents,
     kev_count : 0..MaxKev, highest_cvss : CvssValues]

ComputeMetrics(a) ==
    [path_anomaly_score |->
         PathAnomalyScore(a.tech_count, a.event_count, a.kev_count, a.highest_cvss),
     business_risk_level |->
         BusinessRisk(a.tech_count, a.event_count, a.kev_count, a.highest_cvss)]

InitReport == InitStore /\ autoflush = TRUE /\ NoCall /\ build = <<>>

\* build_and_analyze called on a non-empty session
CallBuildAndAnalyze ==
    /\ call = "none"
    /\ \E a \in ReportArgs :
           /\ arg' = a
           /\ result' = <<Returned(ComputeMetrics(a))>>
    /\ call' = "build_and_analyze"
    /\ UNCHANGED <<gvars, build, cache, fetched>>

NextReport == CallBuildAndAnalyze

SpecReport == InitReport /\ [][NextReport]_vars

Reported == call = "build_and_analyze"
PathReport == result[1].value

\* C21: every report has a path anomaly score between 0 and 100 and a
\* business risk level among Informational, Low, Medium and High.
C21_ReportBounds ==
    Reported =>
        /\ PathReport.path_anomaly_score >= 0
        /\ PathReport.path_anomaly_score <= 10000
        /\ PathReport.business_risk_level \in {"Informational", "Low", "Medium", "High"}

\* a session with a KEV-listed CVE whose escalated score is cut to 100
C21_Witness ==
    /\ Reported /\ arg.kev_count > 0
    /\ (arg.tech_count * 1000 + LogTimesTen(arg.event_count + 1)) * 15 > 100000
    /\ PathReport.path_anomaly_score = 10000
    /\ PathReport.business_risk_level = "High"

(***************************************************************************)
(* Catalog access (Tool2/src/vuln.py).  build.cve and build.cwe are the    *)
(* cve and cwe tables of the catalog, functions from the ids they hold to  *)
(* the records the queries build from their rows.  A query may fail        *)
(* (sqlite3 error): ok = FALSE.                                            *)
(***************************************************************************)
CveRecord == [cvss |-> 98, description |-> "rce", cwe_ids |-> <<"CWE-79">>,
              is_kev |-> TRUE, kev_name |-> "rce"]
CweRecord == [name |-> "Cross-site Scripting (XSS)", abstraction |-> "Base"]

\* the defaults of the two lookups
ZeroRecord == [cvss |-> 0, description |-> "", cwe_ids |-> <<>>,
               is_kev |-> FALSE, kev_name |-> NULL]
UnknownCwe(c) == [name |-> IF c = "CWE-79" THEN "Cross-site Scripting (XSS)" ELSE "Unknown",
                  abstraction |-> "Unknown"]

\* catalogs: CVE-1 and CWE-79 may be present, CVE-2 never is
Catalogs ==
    [cve : {<<>>, [c \in {"CVE-1"} |-> CveRecord]},
     cwe : {<<>>, [c \in {"CWE-79"} |-> CweRecord]}]

IdLists == {<<>>, <<"CVE-1">>, <<"CVE-2">>, <<"CWE-79">>, <<"CVE-1", "CVE-2">>,
            <<"CWE-79", "CVE-1">>}

Elems(ids) == {ids[i] : i \in 1..Len(ids)}

\* missing = [c for c in ids if c not in self._cache]
Missing(ids) == SelectSeq(ids, LAMBDA c : c \notin DOMAIN cache)

\* cursor.fetchall(): the rows of table among the missing ids
Fetch(table, missing) == [c \in Elems(missing) \cap DOMAIN table |-> table[c]]

\* self._cache.update(results)
CacheUpdate(results) ==
    [c \in DOMAIN cache \cup DOMAIN results |->
        IF c \in DOMAIN results THEN results[c] ELSE cache[c]]

\* the dict comprehension of the return statement, read from the new cache
FromCache(new_cache, c, default) ==
    IF c \in DOMAIN new_cache THEN new_cache[c] ELSE default

InitVuln ==
    /\ InitStore /\ autoflush = TRUE /\ NoCall
    /\ build \in Catalogs

\* batch_lookup_cves(ids); the query, if one is sent, succeeds or fails
BatchLookupCves ==
    /\ Len(result) < MaxLookups
    /\ \E ids \in IdLists : \E ok \in BOOLEAN :
           LET missing == Missing(ids)
               queried == ids # <<>> /\ missing # <<>>
               new_cache == IF queried /\ ok
                            THEN CacheUpdate(Fetch(build.cve, missing))
                            ELSE cache
           IN /\ arg' = ids
              /\ cache' = new_cache
              /\ fetched' = IF queried
                            THEN Append(fetched, [table |-> "cve", ids |-> missing, ok |-> ok])
                            ELSE fetched
              /\ result' = Append(result,
                                  [status |-> "returned", fn |-> "batch_lookup_cves",
                                   ids |-> ids, cached |-> DOMAIN cache,
                                   failed |-> queried /\ ~ok,
                                   value |-> [c \in Elems(ids) |->
                                                 FromCache(new_cache, c, ZeroRecord)]])
    /\ call' = "batch_lookup_cves"
    /\ UNCHANGED <<gvars, build>>

\* batch_lookup_cwes(ids)
BatchLookupCwes ==
    /\ Len(result) < MaxLookups
    /\ \E ids \in IdLists : \E ok \in BOOLEAN :
           LET missing == Missing(ids)
               queried == ids # <<>> /\ missing # <<>>
               new_cache == IF queried /\ ok
                            THEN CacheUpdate(Fetch(build.cwe, missing))
                            ELSE cache
           IN /\ arg' = ids
              /\ cache' = new_cache
              /\ fetched' = IF queried
                            THEN Append(fetched, [table |-> "cwe", ids |-> missing, ok |-> ok])
                            ELSE fetched
              /\ result' = Append(result,
                                  [status |-> "returned", fn |-> "batch_lookup_cwes",
                                   ids |-> ids, cached |-> DOMAIN cache,
                                   failed |-> queried /\ ~ok,
                                   value |-> [c \in Elems(ids) |->
                                                 FromCache(new_cache, c, UnknownCwe(c))]])
    /\ call' = "batch_lookup_cwes"
    /\ UNCHANGED <<gvars, build>>

NextVuln == BatchLookupCves \/ BatchLookupCwes

SpecVuln == InitVuln /\ [][NextVuln]_vars

\* C22: over the calls made on one instance, each id is requested from the
\* catalog at most once, ids absent from the catalog and ids whose query
\* failed included.
C22_FetchedOnce ==
    \A i, j \in 1..Len(fetched) :
        i # j => Elems(fetched[i].ids) \cap Elems(fetched[j].ids) = {}

\* C23: batch_lookup_cves returns, for each id asked for, a record with
\* cvss, cwe_ids and is_kev, and the zero record for an id that the catalog
\* does not hold or whose query failed, whatever was looked up before.
C23_TotalLookup ==
    \A k \in 1..Len(result) :
        result[k].fn = "batch_lookup_cves" =>
            /\ DOMAIN result[k].value = Elems(result[k].ids)
            /\ \A c \in Elems(result[k].ids) :
                   /\ {"cvss", "cwe_ids", "is_kev"} \subseteq DOMAIN result[k].value[c]
                   /\ (c \notin DOMAIN build.cve
                           \/ (result[k].failed /\ c \notin result[k].cached)
                         => result[k].value[c] = ZeroRecord)

(***************************************************************************)
(* The classification of a report by process_execution_feedback            *)
(* (Tool6/src/learning.py, lines 76-146), as a function of the active      *)
(* configuration and the report.  build is the active configuration: the   *)
(* genesis one, or one that a first report has activated.                  *)
(***************************************************************************)
Activated(cfg) == [cfg EXCEPT !.is_active = 1]

StartConfigs ==
    {GenesisConfig}
        \cup {Activated(BuildConfig(GenesisConfig, r, NewVersion(1))) :
                  r \in FewReports \cup {TighteningReport, BulkSuccessReport}}

\* lines 76-146: the counters, raw_delta and the new configuration
Feedback(cur, report) ==
    [tally |-> Tally(report),
     raw_delta |-> RawDelta(Tally(report)),
     new_config |-> BuildConfig(cur, report, NewVersion(2))]

InitClassify ==
    /\ InitStore /\ autoflush = TRUE /\ NoCall
    /\ build \in StartConfigs

\* process_execution_feedback called on a report
CallFeedback ==
    /\ call = "none"
    /\ \E r \in Reports :
           /\ arg' = r
           /\ result' = <<Returned(Feedback(build, r))>>
    /\ call' = "process_execution_feedback"
    /\ UNCHANGED <<gvars, build, cache, fetched>>

NextClassify == CallFeedback

SpecClassify == InitClassify /\ [][NextClassify]_vars

Classified == call = "process_execution_feedback"
Outcome == result[1].value

\* the actions of the report as _parse_actions returns them, counted by
\* their final_status
StatusCount(statuses) ==
    LET acts == IF arg.actions_included
                THEN [i \in 1..Len(arg.acts) |-> [arg.acts[i] EXCEPT !.final_status = "success"]]
                ELSE arg.acts
    IN Cardinality({i \in 1..Len(acts) : acts[i].final_status \in statuses})
KevCount(statuses) ==
    LET acts == IF arg.actions_included
                THEN [i \in 1..Len(arg.acts) |-> [arg.acts[i] EXCEPT !.final_status = "success"]]
                ELSE arg.acts
    IN Cardinality({i \in 1..Len(acts) :
                       acts[i].final_status \in statuses /\ acts[i].is_kev})
UrgentCount ==
    Cardinality({i \in 1..Len(arg.acts) : arg.acts[i].urgency \in {"Critical", "High"}})

FailureBranch ==
    /\ Outcome.raw_delta
           = -(StatusCount({"rolled_back", "failed"}) * ALPHA
                   * (1 + KevCount({"rolled_back", "failed"})))
    /\ Outcome.new_config.success_streak = 0
    /\ Outcome.new_config.failure_streak = build.failure_streak + 1

SuccessBranch ==
    /\ Outcome.raw_delta * 10
           = StatusCount({"success"}) * BETA
                 * (10 + 5 * KevCount({"success"}) + UrgentCount)
    /\ Outcome.new_config.failure_streak = 0
    /\ Outcome.new_config.success_streak = build.success_streak + 1

NeitherBranch ==
    /\ Outcome.raw_delta = 0
    /\ Outcome.new_config.success_streak = build.success_streak
    /\ Outcome.new_config.failure_streak = build.failure_streak

\* C24 as stated: a report with a rolled_back or failed action takes the
\* failure branch, even with successes; otherwise a report with a success
\* takes the success branch; a report with neither gives raw_delta = 0 and
\* leaves the streaks unchanged.
C24_Classification ==
    Classified =>
        IF StatusCount({"rolled_back", "failed"}) > 0 THEN FailureBranch
        ELSE IF StatusCount({"success"}) > 0 THEN SuccessBranch
        ELSE NeitherBranch

\* C24 as amended: the same, except that a report bearing a script_filename
\* with actions that are neither failures nor successes has all its actions
\* counted as successes: raw_delta is positive, the failure streak is reset
\* and the success streak grows by one.
C24_ClassificationScriptAware ==
    Classified =>
        IF StatusCount({"rolled_back", "failed"}) > 0 THEN FailureBranch
        ELSE IF StatusCount({"success"}) > 0 THEN SuccessBranch
        ELSE IF arg.script_filename /\ Len(arg.acts) > 0
        THEN /\ Outcome.raw_delta > 0
             /\ Outcome.new_config.failure_streak = 0
             /\ Outcome.new_config.success_streak = build.success_streak + 1
        ELSE NeitherBranch

\* a report with a failure and a success, handled after a success streak
C24_Witness ==
    /\ Classified
    /\ StatusCount({"rolled_back", "failed"}) > 0 /\ StatusCount({"success"}) > 0
    /\ build.success_streak > 0
    /\ Outcome.new_config.success_streak = 0
    /\ Outcome.raw_delta < 0

\* C25: a report bearing a script_filename has all its actions treated as
\* successes: no rollback, as many successes as actions, the success branch.
C25_ScriptAllSuccess ==
    Classified /\ arg.script_filename =>
        /\ Outcome.tally.rollbacks = 0
        /\ Outcome.tally.successes = Len(arg.acts)
        /\ (Len(arg.acts) > 0 => Outcome.raw_delta > 0
                                    /\ Outcome.new_config.failure_streak = 0)

\* C26: whenever a report with at least one rollback is processed, the new
\* trust momentum is not positive and the new containment threshold is not
\* lower than that of the configuration that was active.
C26_FailuresTighten ==
    \A p \in Procs :
        loc[p].pending /\ loc[p].in_feedback /\ loc[p].tally.rollbacks > 0 =>
            /\ loc[p].new_cfg.trust_momentum <= 0
            /\ loc[p].new_cfg.containment_threshold >= loc[p].cur_cfg.containment_threshold

\* C29: in every stored configuration the two streak counters are
\* non-negative and not both positive.
C29_StreakExclusive ==
    \A i \in 1..Len(configs) :
        /\ configs[i].success_streak >= 0 /\ configs[i].failure_streak >= 0
        /\ configs[i].success_streak = 0 \/ configs[i].failure_streak = 0

\* a failure streak started on a configuration that had a success streak
C29_Witness ==
    /\ Len(configs) = 3
    /\ configs[2].success_streak = 1 /\ configs[2].failure_streak = 0
    /\ configs[3].is_active = 1
    /\ configs[3].success_streak = 0 /\ configs[3].failure_streak = 1

\* the urgency rule of C27 for a reaction time min_time (NullTime: none)
RuleUrgency(min_time, is_kev, max_cvss, decision_conf) ==
    LET within(limit) == min_time # NullTime /\ min_time < limit
    IN IF decision_conf < 3500 /\ ~is_kev THEN "Low"
       ELSE IF within(300) \/ is_kev \/ max_cvss >= 90 THEN "Critical"
       ELSE IF within(3600) \/ max_cvss >= 70 THEN "High"
       ELSE IF within(14400) THEN "Medium"
       ELSE "Low"

\* C27: the urgency of every decision follows the urgency rule, applied to
\* the reaction time of one of the forecast's scenarios; in particular a
\* decision for a forecast with KEV present is Critical, also when the
\* forecast has no scenario.
C27_UrgencyRule ==
    Decided =>
        LET f == arg.forecast
            ctx == arg.ctx
            Rule(min_time) == RuleUrgency(min_time, IsKev(f, ctx), MaxCvss(f, ctx),
                                          Decision.decision_confidence)
        IN /\ IF f.predicted_scenarios = <<>>
              THEN Decision.urgency_level = Rule(NullTime)
              ELSE \E k \in 1..Len(f.predicted_scenarios) :
                       Decision.urgency_level = Rule(f.predicted_scenarios[k].min_seconds)
           /\ (IsKev(f, ctx) => Decision.urgency_level = "Critical")

\* the scenarios a traversal discovers, ranked but not cut (lines 156-193)
Discovered(a, start_node) ==
    SortByProbability(
        Traverse(a, <<[curr |-> start_node, path |-> <<>>, prob |-> 10000]>>, {}, <<>>))

\* the discovered scenarios of the seeds, in seed order
RECURSIVE AllDiscovered(_, _, _)
AllDiscovered(a, seed_order, k) ==
    IF k > Len(seed_order) THEN <<>>
    ELSE Discovered(a, seed_order[k]) \o AllDiscovered(a, seed_order, k + 1)

\* the ranking of lines 71-79 applied to every discovered scenario
RankedDiscovered(a, seed_order) ==
    Top(SortByProbability(Deduplicate(AllDiscovered(a, seed_order, 1))))

\* C28: the scenario list returned by predict is the ranking (merge by path
\* keeping the greatest probability, stable sort by probability descending,
\* first 5) of all scenarios the traversals of the seeds discover: the cut
\* to 5 scenarios inside each traversal changes neither the paths returned
\* nor their order.
C28_CutIsInvisible ==
    Predicted => ScenariosOf(Summary) = RankedDiscovered(arg, Summary.seeds)

\* predicted_scenarios sorted non-increasing by probability
SortedByProbability(scenarios) ==
    \A i \in 1..(Len(scenarios) - 1) :
        scenarios[i].probability >= scenarios[i + 1].probability

\* C30: for a forecast whose scenarios are sorted non-increasing by
\* probability and whose aggregate confidence is not negative, the action
\* type the decision recommends is not the candidate action of any of the
\* decision's rejected actions.
C30_RecommendedNotRejected ==
    Decided /\ SortedByProbability(arg.forecast.predicted_scenarios)
            /\ arg.forecast.aggregate_confidence >= 0 =>
        \A i \in 1..Len(Decision.rejected_actions) :
            Decision.rejected_actions[i].candidate_action # Recommended.action_type

\* a sorted forecast of two scenarios of different probability: every action
\* for the first and one for the second are rejected, another action for the
\* second is recommended
C30_Witness ==
    /\ Decided
    /\ Len(arg.forecast.predicted_scenarios) = 2
    /\ arg.forecast.predicted_scenarios[1].probability
           > arg.forecast.predicted_scenarios[2].probability
    /\ Len(Decision.rejected_actions) = 3
    /\ Recommended.action_type = "Enable Logon Failure Auditing"

====
